---- MODULE Spec2Model ----
(***************************************************************************)
(* Model of storage::distributor::IdealStateManager                        *)
(* (storage/src/vespa/storage/distributor/idealstatemanager.cpp): the      *)
(* ordered state checker chain, the arbitration of the checkers' results,  *)
(* the resolution of the primary database entry, the phantom replica       *)
(* detection and the four decision operations prioritize, generate,        *)
(* generateAll and generateInterceptingSplit.                              *)
(*                                                                         *)
(* The bucket database, the cluster state, the per-checker activation      *)
(* configuration and the rules inside the individual state checkers are    *)
(* collaborators of the manager.  They are modelled as environment state:  *)
(* db, systemState, active and verdict.                                    *)
(***************************************************************************)
EXTENDS Integers, Sequences, FiniteSets, TLC

\* ------------------------------------------------------------------ bounds

\* Maintenance priorities are 0..MaxPri; 0 is NO_MAINTENANCE_NEEDED.
MaxPri == 2
\* Storage nodes are 0..MaxNode.
MaxNode == 1
\* Bucket ids are 1..MaxBucket (0 is the id of an invalid entry).
MaxBucket == 2
\* At most MaxVaried checkers at a time are disabled or find maintenance
\* needed.
MaxVaried == 2

\* Worker threads of the scheduler that call the manager at the same time.
MaxThread == 2

\* Largest size of a tensor dimension; tensor types have one or two dimensions.
MaxDim == 12

\* Width of size_t in bits (64 in the build, narrowed to keep wrap-around
\* within reach).
SizeBits == 10

\* ------------------------------------------------------------ value spaces

Threads == 1..MaxThread
Nodes == 0..MaxNode
BucketIds == 1..MaxBucket
Priorities == 0..MaxPri
\* Message priorities a caller hands to generateInterceptingSplit.
MsgPriorities == {MaxPri, MaxPri + 1}

\* lib::State of a node: Up, Initializing, Retired, Maintenance, Down, Stopping.
NodeStates == {"u", "i", "r", "m", "d", "s"}

\* The state checkers the constructor instantiates, by class.
BucketStateStateChecker == "BucketStateStateChecker"
SplitBucketStateChecker == "SplitBucketStateChecker"
SplitInconsistentStateChecker == "SplitInconsistentStateChecker"
SynchronizeAndMoveStateChecker == "SynchronizeAndMoveStateChecker"
JoinBucketsStateChecker == "JoinBucketsStateChecker"
DeleteExtraCopiesStateChecker == "DeleteExtraCopiesStateChecker"
GarbageCollectionStateChecker == "GarbageCollectionStateChecker"

CheckerNames ==
    { BucketStateStateChecker, SplitBucketStateChecker,
      SplitInconsistentStateChecker, SynchronizeAndMoveStateChecker,
      JoinBucketsStateChecker, DeleteExtraCopiesStateChecker,
      GarbageCollectionStateChecker }

\* MaintenanceOperation::Type of the operation a checker builds;
\* OPERATION_COUNT is the "no operation" tag.
OPERATION_COUNT == "OPERATION_COUNT"

OperationType(name) ==
    CASE name = BucketStateStateChecker -> "SET_BUCKET_STATE"
      [] name = SplitBucketStateChecker -> "SPLIT_BUCKET"
      [] name = SplitInconsistentStateChecker -> "SPLIT_BUCKET"
      [] name = SynchronizeAndMoveStateChecker -> "MERGE_BUCKET"
      [] name = JoinBucketsStateChecker -> "JOIN_BUCKET"
      [] name = DeleteExtraCopiesStateChecker -> "DELETE_BUCKET"
      [] name = GarbageCollectionStateChecker -> "GARBAGE_COLLECTION"

\* --------------------------------------------------------------- variables

VARIABLES
    stateCheckers,      \* _stateCheckers: the ordered checker list
    splitChecker,       \* _splitBucketStateChecker
    hasLogged,          \* _has_logged_phantom_replica_warning
    errorLog,           \* number of LOG(error) phantom replica lines written
    db,                 \* bucket database: bucket id -> entry (InvalidEntry: none)
    systemState,        \* cluster state: storage node -> lib::State
    active,             \* configuration: checker name -> stateCheckerIsActive
    verdict,            \* what each checker's rule finds on the present context
    ret,                \* the last completed call: its arguments and what it did
    threads,            \* worker threads of the scheduler: where each one is
                        \* in the call it makes on the manager
    peer,               \* another IdealStateManager of the process: its
                        \* _has_logged_phantom_replica_warning, the LOG(error)
                        \* lines it wrote and its last completed call
    tensorStore         \* a DenseTensorStore: its TensorSizeCalc and the
                        \* sizes of its last allocRawBuffer

vars == <<stateCheckers, splitChecker, hasLogged, errorLog, db, systemState,
          active, verdict, ret, threads, peer, tensorStore>>

\* ------------------------------------------------------ collaborator values

\* BucketDatabase::Entry: a bucket id and its replica node list.  What the
\* database returns for a bucket it does not hold is the default entry,
\* which has bucket id 0.
InvalidEntry == [bucketId |-> 0, nodes |-> <<>>]

\* BucketDatabase::Entry::valid()
valid(e) == e.bucketId # 0

\* Replica node lists the database can hold: strictly ascending node lists,
\* the empty list included.
RECURSIVE AscendingFrom(_)
AscendingFrom(n) ==
    IF n > MaxNode THEN { <<>> }
    ELSE LET rest == AscendingFrom(n + 1)
         IN  rest \cup { <<n>> \o r : r \in rest }

NodeLists == AscendingFrom(0)

EntriesOf(b) == { [bucketId |-> b, nodes |-> ns] : ns \in NodeLists }

\* Bucket ids form a split tree: 1 is the root and b has children 2b, 2b+1.
RECURSIVE contains(_, _)
contains(a, b) == (a = b) \/ (b > a /\ contains(a, b \div 2))

\* The bucket b would be joined with (0: none, the root has no sibling).
sibling(b) == IF b = 1 THEN 0 ELSE IF b % 2 = 0 THEN b + 1 ELSE b - 1

\* BucketDatabase::get
get(b) == IF b \in BucketIds THEN db[b] ELSE InvalidEntry

\* BucketDatabase::getAll: the entries of the buckets that contain b or that
\* b contains, b's own entry included, by ascending bucket id.
RECURSIVE getAllFrom(_, _)
getAllFrom(b, i) ==
    IF i > MaxBucket THEN <<>>
    ELSE (IF (contains(i, b) \/ contains(b, i)) /\ valid(db[i])
          THEN <<db[i]>> ELSE <<>>) \o getAllFrom(b, i + 1)

getAll(b) == getAllFrom(b, 1)

\* lib::State::oneOf
oneOf(state, chars) == state \in chars

\* MaintenancePriority::requiresMaintenance
requiresMaintenance(priority) == priority # 0

\* A MaintenanceOperation: the checker that built it, its type, its message
\* priority and whether it is bound to the manager.  NoOperation is the
\* null pointer.
NoOperation ==
    [checker |-> "none", type |-> OPERATION_COUNT, priority |-> 0, manager |-> FALSE]

\* StateChecker::Result::noMaintenanceNeeded
noMaintenanceNeeded ==
    [priority |-> 0, type |-> OPERATION_COUNT, operation |-> NoOperation]

\* StateChecker::Result::createOperation
createOperation(result) == result.operation

\* StateChecker::Context, as the manager builds it.  stats is what the
\* checkers have added to the NodeMaintenanceStatsTracker of the call and
\* seen is the list of check() invocations made on the context.
Context(bucket) ==
    [bucket |-> bucket, entries |-> <<>>, siblingEntry |-> InvalidEntry,
     entry |-> InvalidEntry, stats |-> <<>>, seen |-> <<>>]

\* StateChecker::check of the checker `name` on context c: the result of the
\* checker's rule, with the checker's contribution to the statistics.
check(name, c) ==
    [result |->
        IF requiresMaintenance(verdict[name])
        THEN [priority |-> verdict[name],
              type |-> OperationType(name),
              operation |-> [checker |-> name, type |-> OperationType(name),
                             priority |-> verdict[name], manager |-> FALSE]]
        ELSE noMaintenanceNeeded,
     c |-> [c EXCEPT !.stats = Append(@, name),
                     !.seen = Append(@, [checker |-> name, bucket |-> c.bucket,
                                         entry |-> c.entry])]]

\* DistributorConfiguration::stateCheckerIsActive
stateCheckerIsActive(name) == active[name]

\* ------------------------------------------------------------- the manager

\* IdealStateManager::IdealStateManager: the checker list it builds.
\* Variant: the join checker is pushed before the synchronize-and-move one.
Constructor_joinFirst(manageActiveBucketCopies) ==
    (IF manageActiveBucketCopies THEN <<BucketStateStateChecker>> ELSE <<>>)
    \o << SplitBucketStateChecker, SplitInconsistentStateChecker,
          JoinBucketsStateChecker, SynchronizeAndMoveStateChecker,
          DeleteExtraCopiesStateChecker, GarbageCollectionStateChecker >>

Constructor(manageActiveBucketCopies) ==
    (IF manageActiveBucketCopies THEN <<BucketStateStateChecker>> ELSE <<>>)
    \o << SplitBucketStateChecker, SplitInconsistentStateChecker,
          SynchronizeAndMoveStateChecker, JoinBucketsStateChecker,
          DeleteExtraCopiesStateChecker, GarbageCollectionStateChecker >>

\* IdealStateManager::fillParentAndChildBuckets
fillParentAndChildBuckets(c) == [c EXCEPT !.entries = getAll(c.bucket)]

\* IdealStateManager::fillSiblingBucket
fillSiblingBucket(c) == [c EXCEPT !.siblingEntry = get(sibling(c.bucket))]

\* Variant: the first entry of the family is taken as the primary entry.
getEntryForPrimaryBucket_first(c) == IF Len(c.entries) > 0 THEN 1 ELSE 0

\* IdealStateManager::getEntryForPrimaryBucket: the index in c.entries of the
\* first entry of the target bucket that has replicas, 0 for the null pointer.
RECURSIVE getEntryFrom(_, _)
getEntryFrom(c, j) ==
    IF j > Len(c.entries) THEN 0
    ELSE IF c.entries[j].bucketId = c.bucket /\ c.entries[j].nodes # <<>>
         THEN j
         ELSE getEntryFrom(c, j + 1)

getEntryForPrimaryBucket(c) == getEntryFrom(c, 1)

\* Variant: the result with the higher priority wins.
canOverwriteResult_highest(existing, candidate) ==
    candidate.priority > existing.priority

\* canOverwriteResult
canOverwriteResult(existing, candidate) ==
    /\ ~requiresMaintenance(existing.priority)
    /\ requiresMaintenance(candidate.priority)

\* Variant: the loop does not consult the configuration.
RECURSIVE runStateCheckers_noSkip(_, _, _)
runStateCheckers_noSkip(i, highestPri, c) ==
    IF i > Len(stateCheckers) THEN [result |-> highestPri, c |-> c]
    ELSE LET r == check(stateCheckers[i], c)
         IN  runStateCheckers_noSkip(
                 i + 1,
                 IF ~requiresMaintenance(highestPri.priority)
                    /\ requiresMaintenance(r.result.priority)
                 THEN r.result ELSE highestPri,
                 r.c)

\* IdealStateManager::runStateCheckers: the loop from checker i on, with the
\* running result highestPri.
\* Variant: the loop ends at the first result that requires maintenance.
RECURSIVE runStateCheckers_break(_, _, _)
runStateCheckers_break(i, highestPri, c) ==
    IF i > Len(stateCheckers) \/ requiresMaintenance(highestPri.priority)
    THEN [result |-> highestPri, c |-> c]
    ELSE IF ~stateCheckerIsActive(stateCheckers[i])
         THEN runStateCheckers_break(i + 1, highestPri, c)
         ELSE LET r == check(stateCheckers[i], c)
              IN  runStateCheckers_break(
                      i + 1,
                      IF canOverwriteResult(highestPri, r.result)
                      THEN r.result ELSE highestPri,
                      r.c)

RECURSIVE runStateCheckersFrom(_, _, _)
runStateCheckersFrom(i, highestPri, c) ==
    IF i > Len(stateCheckers) THEN [result |-> highestPri, c |-> c]
    ELSE IF ~stateCheckerIsActive(stateCheckers[i])
         THEN runStateCheckersFrom(i + 1, highestPri, c)
         ELSE LET r == check(stateCheckers[i], c)
              IN  runStateCheckersFrom(
                      i + 1,
                      IF canOverwriteResult(highestPri, r.result)
                      THEN r.result ELSE highestPri,
                      r.c)

runStateCheckers(c) == runStateCheckersFrom(1, noMaintenanceNeeded, c)

\* IdealStateManager::verify_only_live_nodes_in_context: the loop over the
\* replicas from replica k on; logs counts the LOG(error) lines written and
\* flag is _has_logged_phantom_replica_warning.
\* Variant: a node in maintenance counts as available.
RECURSIVE verifyFrom_maintenanceLive(_, _, _, _)
verifyFrom_maintenanceLive(c, k, logs, flag) ==
    IF k > Len(c.entry.nodes) THEN [logs |-> logs, flag |-> flag]
    ELSE IF ~oneOf(systemState[c.entry.nodes[k]], {"u", "i", "r", "m"})
         THEN verifyFrom_maintenanceLive(c, k + 1, logs + 1, TRUE)
         ELSE verifyFrom_maintenanceLive(c, k + 1, logs, flag)

RECURSIVE verifyFrom(_, _, _, _)
verifyFrom(c, k, logs, flag) ==
    IF k > Len(c.entry.nodes) THEN [logs |-> logs, flag |-> flag]
    ELSE IF ~oneOf(systemState[c.entry.nodes[k]], {"u", "i", "r"})
         THEN verifyFrom(c, k + 1, logs + 1, TRUE)
         ELSE verifyFrom(c, k + 1, logs, flag)

verify_only_live_nodes_in_context(c) ==
    IF hasLogged THEN [logs |-> 0, flag |-> hasLogged]
    ELSE verifyFrom(c, 1, 0, hasLogged)

\* Variant: a phantom replica ends the evaluation.
generateHighestPriority_stop(bucket) ==
    LET c0 == fillSiblingBucket(fillParentAndChildBuckets(Context(bucket)))
        e == getEntryForPrimaryBucket(c0)
    IN  IF e = 0
        THEN [found |-> FALSE, result |-> noMaintenanceNeeded, c |-> c0,
              logs |-> 0, flag |-> hasLogged]
        ELSE LET c1 == [c0 EXCEPT !.entry = c0.entries[e]]
                 v == verify_only_live_nodes_in_context(c1)
                 r == runStateCheckers(c1)
             IN  IF v.logs > 0
                 THEN [found |-> TRUE, result |-> noMaintenanceNeeded, c |-> c1,
                       logs |-> v.logs, flag |-> v.flag]
                 ELSE [found |-> TRUE, result |-> r.result, c |-> r.c,
                       logs |-> v.logs, flag |-> v.flag]

\* Variant: the replicas are not validated against the cluster state.
generateHighestPriority_noVerify(bucket) ==
    LET c0 == fillSiblingBucket(fillParentAndChildBuckets(Context(bucket)))
        e == getEntryForPrimaryBucket(c0)
    IN  IF e = 0
        THEN [found |-> FALSE, result |-> noMaintenanceNeeded, c |-> c0,
              logs |-> 0, flag |-> hasLogged]
        ELSE LET c1 == [c0 EXCEPT !.entry = c0.entries[e]]
                 r == runStateCheckers(c1)
             IN  [found |-> TRUE, result |-> r.result, c |-> r.c,
                  logs |-> 0, flag |-> hasLogged]

\* IdealStateManager::generateHighestPriority
generateHighestPriority(bucket) ==
    LET c0 == fillSiblingBucket(fillParentAndChildBuckets(Context(bucket)))
        e == getEntryForPrimaryBucket(c0)
    IN  IF e = 0
        THEN [found |-> FALSE, result |-> noMaintenanceNeeded, c |-> c0,
              logs |-> 0, flag |-> hasLogged]
        ELSE LET c1 == [c0 EXCEPT !.entry = c0.entries[e]]
                 v == verify_only_live_nodes_in_context(c1)
                 r == runStateCheckers(c1)
             IN  [found |-> TRUE, result |-> r.result, c |-> r.c,
                  logs |-> v.logs, flag |-> v.flag]

\* IdealStateManager::generateAll: the loop over the checkers from checker i
\* on, with the operations collected so far.
RECURSIVE generateAllFrom(_, _, _)
generateAllFrom(i, operations, c) ==
    IF i > Len(stateCheckers) THEN [operations |-> operations, c |-> c]
    ELSE LET r == check(stateCheckers[i], c)
             op == createOperation(r.result)
         IN  generateAllFrom(
                 i + 1,
                 IF op # NoOperation THEN Append(operations, op) ELSE operations,
                 r.c)

\* What a call leaves behind until its caller has taken it (the calls are
\* synchronous: one starts when the one before has returned): its name and
\* arguments, whether a primary entry
\* was resolved, the priority and type (prioritize), the operation (generate,
\* generateInterceptingSplit), the operations (generateAll), the check()
\* invocations it made, what the checkers added to its statistics tracker,
\* the number of LOG(error) lines it wrote and the lines it wrote to the
\* caller's stream (status dump).
NoCall ==
    [api |-> "none", bucket |-> 0, entry |-> InvalidEntry, pri |-> 0,
     found |-> FALSE, priority |-> 0, type |-> OPERATION_COUNT,
     operation |-> NoOperation, operations |-> <<>>,
     seen |-> <<>>, stats |-> <<>>, logs |-> 0, out |-> <<>>]

\* Variant: the type tag is taken when no maintenance is required.
prioritize_inverted(bucket) ==
    LET generated == generateHighestPriority(bucket)
        priority == generated.result.priority
        type == IF requiresMaintenance(priority)
                THEN OPERATION_COUNT ELSE generated.result.type
    IN  /\ ret = NoCall
        /\ ret' = [NoCall EXCEPT !.api = "prioritize", !.bucket = bucket,
                                 !.found = generated.found,
                                 !.priority = priority, !.type = type,
                                 !.seen = generated.c.seen,
                                 !.stats = generated.c.stats,
                                 !.logs = generated.logs]
        /\ hasLogged' = generated.flag
        /\ errorLog' = errorLog + generated.logs
        /\ UNCHANGED <<tensorStore, threads, peer,
                       stateCheckers, splitChecker, db, systemState,
                       active, verdict>>

\* IdealStateManager::prioritize
prioritize(bucket) ==
    LET generated == generateHighestPriority(bucket)
        priority == generated.result.priority
        type == IF requiresMaintenance(priority)
                THEN generated.result.type ELSE OPERATION_COUNT
    IN  /\ ret = NoCall
        /\ ret' = [NoCall EXCEPT !.api = "prioritize", !.bucket = bucket,
                                 !.found = generated.found,
                                 !.priority = priority, !.type = type,
                                 !.seen = generated.c.seen,
                                 !.stats = generated.c.stats,
                                 !.logs = generated.logs]
        /\ hasLogged' = generated.flag
        /\ errorLog' = errorLog + generated.logs
        /\ UNCHANGED <<tensorStore, threads, peer,
                       stateCheckers, splitChecker, db, systemState,
                       active, verdict>>

\* Variant: the operation is that of the first checker of the list that
\* finds maintenance needed, whatever the configuration.
generate_firstFound(bucket) ==
    LET generated == generateHighestPriority(bucket)
        all == IF generated.found
               THEN generateAllFrom(1, <<>>, Context(bucket)).operations
               ELSE <<>>
        op == IF all # <<>> THEN all[1] ELSE NoOperation
    IN  /\ ret = NoCall
        /\ ret' = [NoCall EXCEPT !.api = "generate", !.bucket = bucket,
                                 !.found = generated.found,
                                 !.operation =
                                     IF op # NoOperation
                                     THEN [op EXCEPT !.manager = TRUE] ELSE op,
                                 !.seen = generated.c.seen,
                                 !.stats = generated.c.stats,
                                 !.logs = generated.logs]
        /\ hasLogged' = generated.flag
        /\ errorLog' = errorLog + generated.logs
        /\ UNCHANGED <<tensorStore, threads, peer,
                       stateCheckers, splitChecker, db, systemState,
                       active, verdict>>

\* IdealStateManager::generate
generate(bucket) ==
    LET generated == generateHighestPriority(bucket)
        op == createOperation(generated.result)
    IN  /\ ret = NoCall
        /\ ret' = [NoCall EXCEPT !.api = "generate", !.bucket = bucket,
                                 !.found = generated.found,
                                 !.operation =
                                     IF op # NoOperation
                                     THEN [op EXCEPT !.manager = TRUE] ELSE op,
                                 !.seen = generated.c.seen,
                                 !.stats = generated.c.stats,
                                 !.logs = generated.logs]
        /\ hasLogged' = generated.flag
        /\ errorLog' = errorLog + generated.logs
        /\ UNCHANGED <<tensorStore, threads, peer,
                       stateCheckers, splitChecker, db, systemState,
                       active, verdict>>

\* IdealStateManager::generateAll: the operations found for the bucket, with
\* the context the checkers have worked on.
generateAllOperations(bucket) ==
    LET c0 == fillSiblingBucket(fillParentAndChildBuckets(Context(bucket)))
        e == getEntryForPrimaryBucket(c0)
    IN  IF e # 0
        THEN [found |-> TRUE] @@
             generateAllFrom(1, <<>>, [c0 EXCEPT !.entry = c0.entries[e]])
        ELSE [found |-> FALSE, operations |-> <<>>, c |-> c0]

\* IdealStateManager::generateAll
generateAll(bucket) ==
    LET all == generateAllOperations(bucket)
    IN  /\ ret = NoCall
        /\ ret' = [NoCall EXCEPT !.api = "generateAll", !.bucket = bucket,
                                 !.found = all.found,
                                 !.operations = all.operations,
                                 !.seen = all.c.seen,
                                 !.stats = all.c.stats]
        /\ UNCHANGED <<tensorStore, threads, peer,
                       stateCheckers, splitChecker, hasLogged,
                       errorLog, db, systemState, active, verdict>>

\* IdealStateManager::getBucketStatus(bucketSpace, entry, statsTracker, out):
\* generateAll on the bucket of a database entry with the visitor's
\* statistics tracker, and one line for the bucket on the stream: its id and
\* the operations found.  acc is what the visit has gathered so far.
getBucketStatusOf(e, acc) ==
    LET c0 == fillSiblingBucket(fillParentAndChildBuckets(
                  [Context(e.bucketId) EXCEPT !.stats = acc.stats,
                                              !.seen = acc.seen]))
        p == getEntryForPrimaryBucket(c0)
        all == IF p # 0
               THEN generateAllFrom(1, <<>>, [c0 EXCEPT !.entry = c0.entries[p]])
               ELSE [operations |-> <<>>, c |-> c0]
    IN  [operations |-> acc.operations \o all.operations,
         seen |-> all.c.seen,
         stats |-> all.c.stats,
         out |-> Append(acc.out, [bucket |-> e.bucketId,
                                  operations |-> all.operations])]

\* IdealStateManager::dump_bucket_space_db_status: the visit of every entry
\* of the bucket database, from bucket b on.
RECURSIVE dump_bucket_space_db_status(_, _)
dump_bucket_space_db_status(b, acc) ==
    IF b > MaxBucket THEN acc
    ELSE dump_bucket_space_db_status(
             b + 1, IF valid(db[b]) THEN getBucketStatusOf(db[b], acc) ELSE acc)

\* Variant: the dump validates the replicas of the entries it visits.
getBucketStatus_verifies ==
    LET dumped == dump_bucket_space_db_status(
                      1, [operations |-> <<>>, seen |-> <<>>, stats |-> <<>>,
                          out |-> <<>>])
        phantom == \E b \in BucketIds : \E k \in 1..Len(db[b].nodes) :
                       ~oneOf(systemState[db[b].nodes[k]], {"u", "i", "r"})
    IN  /\ ret = NoCall
        /\ ret' = [NoCall EXCEPT !.api = "getBucketStatus",
                                 !.operations = dumped.operations,
                                 !.seen = dumped.seen,
                                 !.stats = dumped.stats,
                                 !.out = dumped.out]
        /\ hasLogged' = (hasLogged \/ phantom)
        /\ errorLog' = IF ~hasLogged /\ phantom THEN errorLog + 1 ELSE errorLog
        /\ UNCHANGED <<tensorStore, threads, peer,
                       stateCheckers, splitChecker, db, systemState,
                       active, verdict>>

\* IdealStateManager::getBucketStatus(out): the status dump.
getBucketStatus ==
    LET dumped == dump_bucket_space_db_status(
                      1, [operations |-> <<>>, seen |-> <<>>, stats |-> <<>>,
                          out |-> <<>>])
    IN  /\ ret = NoCall
        /\ ret' = [NoCall EXCEPT !.api = "getBucketStatus",
                                 !.operations = dumped.operations,
                                 !.seen = dumped.seen,
                                 !.stats = dumped.stats,
                                 !.out = dumped.out]
        /\ UNCHANGED <<tensorStore, threads, peer,
                       stateCheckers, splitChecker, hasLogged, errorLog, db,
                       systemState, active, verdict>>

\* Variant: the operation keeps the priority of the split checker's result.
generateInterceptingSplit_keepPriority(e, pri) ==
    LET c0 == Context(e.bucketId)
        r == check(splitChecker, [c0 EXCEPT !.entry = e])
        operation == createOperation(r.result)
    IN  /\ ret = NoCall
        /\ ret' = IF valid(e)
                  THEN [NoCall EXCEPT !.api = "generateInterceptingSplit",
                                      !.bucket = e.bucketId,
                                      !.entry = e, !.pri = pri,
                                      !.operation =
                                          IF operation # NoOperation
                                          THEN [operation EXCEPT !.manager = TRUE]
                                          ELSE operation,
                                      !.seen = r.c.seen,
                                      !.stats = r.c.stats]
                  ELSE [NoCall EXCEPT !.api = "generateInterceptingSplit",
                                      !.bucket = e.bucketId,
                                      !.entry = e, !.pri = pri]
        /\ UNCHANGED <<tensorStore, threads, peer,
                       stateCheckers, splitChecker, hasLogged, errorLog, db,
                       systemState, active, verdict>>

\* Variant: the whole chain is run on the entry.
generateInterceptingSplit_chain(e, pri) ==
    LET c0 == Context(e.bucketId)
        r == runStateCheckers([c0 EXCEPT !.entry = e])
        operation == createOperation(r.result)
    IN  /\ ret = NoCall
        /\ ret' = [NoCall EXCEPT !.api = "generateInterceptingSplit",
                                 !.bucket = e.bucketId,
                                 !.entry = e, !.pri = pri,
                                 !.operation =
                                     IF operation # NoOperation
                                     THEN [operation EXCEPT !.priority = pri,
                                                            !.manager = TRUE]
                                     ELSE operation,
                                 !.seen = r.c.seen,
                                 !.stats = r.c.stats]
        /\ UNCHANGED <<tensorStore, threads, peer,
                       stateCheckers, splitChecker, hasLogged, errorLog, db,
                       systemState, active, verdict>>

\* IdealStateManager::generateInterceptingSplit
generateInterceptingSplit(e, pri) ==
    LET c0 == Context(e.bucketId)
        r == check(splitChecker, [c0 EXCEPT !.entry = e])
        operation == createOperation(r.result)
    IN  /\ ret = NoCall
        /\ ret' = IF valid(e)
                  THEN [NoCall EXCEPT !.api = "generateInterceptingSplit",
                                      !.bucket = e.bucketId,
                                      !.entry = e, !.pri = pri,
                                      !.operation =
                                          IF operation # NoOperation
                                          THEN [operation EXCEPT !.priority = pri,
                                                                 !.manager = TRUE]
                                          ELSE operation,
                                      !.seen = r.c.seen,
                                      !.stats = r.c.stats]
                  ELSE [NoCall EXCEPT !.api = "generateInterceptingSplit",
                                      !.bucket = e.bucketId,
                                      !.entry = e, !.pri = pri]
        /\ UNCHANGED <<tensorStore, threads, peer,
                       stateCheckers, splitChecker, hasLogged, errorLog, db,
                       systemState, active, verdict>>

\* ------------------------------------------------------- concurrent calls

\* A worker thread between calls.  In a call: pc is where the thread is
\* (verify: in verify_only_live_nodes_in_context, before its flag test when
\* k = 0 and at replica k of the primary entry otherwise; check: before the
\* checker loop; done: returned), raced tells that another thread has set
\* the flag since the call began, and the rest is what the call returns.
Idle ==
    [pc |-> "idle", api |-> "none", bucket |-> 0, k |-> 0, raced |-> FALSE,
     found |-> FALSE, priority |-> 0, type |-> OPERATION_COUNT,
     operation |-> NoOperation, operations |-> <<>>, logs |-> 0]

\* Thread t calls prioritize, generate or generateAll: the context is built
\* and the primary entry looked up.  Without a primary entry the call
\* returns; generateAll goes on to its checker loop, the others to
\* verify_only_live_nodes_in_context.
call(t, api, bucket) ==
    LET c0 == fillSiblingBucket(fillParentAndChildBuckets(Context(bucket)))
        e == getEntryForPrimaryBucket(c0)
    IN  /\ threads[t].pc = "idle"
        /\ threads' = [threads EXCEPT ![t] =
               [Idle EXCEPT !.api = api, !.bucket = bucket, !.found = (e # 0),
                            !.pc = IF e = 0 THEN "done"
                                   ELSE IF api = "generateAll" THEN "check"
                                   ELSE "verify"]]
        /\ UNCHANGED <<tensorStore, peer,
                       stateCheckers, splitChecker, hasLogged, errorLog,
                       db, systemState, active, verdict, ret>>

\* verify_only_live_nodes_in_context, the test of the flag.  The flag is a
\* plain bool the threads share without synchronization: a thread that has
\* raced with the write that set it reads the new value or the old one.
testLogged(t) ==
    /\ threads[t].pc = "verify"
    /\ threads[t].k = 0
    /\ \E read \in {hasLogged} \cup (IF threads[t].raced THEN {FALSE} ELSE {}) :
           threads' = [threads EXCEPT ![t].pc = IF read THEN "check" ELSE "verify",
                                      ![t].k = IF read THEN 0 ELSE 1]
    /\ UNCHANGED <<tensorStore, peer,
                   stateCheckers, splitChecker, hasLogged, errorLog,
                   db, systemState, active, verdict, ret>>

\* verify_only_live_nodes_in_context, one turn of the loop over the replicas
\* of the primary entry: a replica on an unavailable node is logged and the
\* flag is set, under the eyes of the threads that have yet to test it.
verifyReplica(t) ==
    LET th == threads[t]
        nodes == db[th.bucket].nodes
        bad == ~oneOf(systemState[nodes[th.k]], {"u", "i", "r"})
        next == [th EXCEPT !.k = IF th.k = Len(nodes) THEN 0 ELSE th.k + 1,
                           !.pc = IF th.k = Len(nodes) THEN "check" ELSE "verify",
                           !.logs = IF bad THEN th.logs + 1 ELSE th.logs]
    IN  /\ th.pc = "verify"
        /\ th.k > 0
        /\ threads' = [u \in Threads |->
               IF u = t THEN next
               ELSE IF bad /\ ~hasLogged /\ threads[u].pc = "verify"
                       /\ threads[u].k = 0
                    THEN [threads[u] EXCEPT !.raced = TRUE]
                    ELSE threads[u]]
        /\ hasLogged' = (hasLogged \/ bad)
        /\ errorLog' = IF bad THEN errorLog + 1 ELSE errorLog
        /\ UNCHANGED <<tensorStore, peer,
                       stateCheckers, splitChecker, db, systemState,
                       active, verdict, ret>>

\* Variant: a thread that finds the flag set returns without a decision.
evaluate_flagged(t) ==
    LET th == threads[t]
    IN  /\ th.pc = "check"
        /\ hasLogged
        /\ threads' = [threads EXCEPT ![t].pc = "done"]
        /\ UNCHANGED <<tensorStore, peer,
                       stateCheckers, splitChecker, hasLogged, errorLog,
                       db, systemState, active, verdict, ret>>

\* The checker loop of the call and its return value: runStateCheckers and
\* what prioritize or generate make of its result, or the loop of generateAll.
evaluate(t) ==
    LET th == threads[t]
        c0 == fillSiblingBucket(fillParentAndChildBuckets(Context(th.bucket)))
        e == getEntryForPrimaryBucket(c0)
        c1 == [c0 EXCEPT !.entry = c0.entries[e]]
        result == runStateCheckers(c1).result
        op == createOperation(result)
    IN  /\ th.pc = "check"
        /\ threads' = [threads EXCEPT ![t] =
               IF th.api = "prioritize"
               THEN [th EXCEPT !.pc = "done", !.k = 0,
                               !.priority = result.priority,
                               !.type = IF requiresMaintenance(result.priority)
                                        THEN result.type ELSE OPERATION_COUNT]
               ELSE IF th.api = "generate"
               THEN [th EXCEPT !.pc = "done", !.k = 0,
                               !.operation =
                                   IF op # NoOperation
                                   THEN [op EXCEPT !.manager = TRUE] ELSE op]
               ELSE [th EXCEPT !.pc = "done", !.k = 0,
                               !.operations =
                                   generateAllFrom(1, <<>>, c1).operations]]
        /\ UNCHANGED <<tensorStore, peer,
                       stateCheckers, splitChecker, hasLogged, errorLog,
                       db, systemState, active, verdict, ret>>

\* The scheduler takes what the call of thread t returned.
takeResult(t) ==
    /\ threads[t].pc = "done"
    /\ threads' = [threads EXCEPT ![t] = Idle]
    /\ UNCHANGED <<tensorStore, peer,
                   stateCheckers, splitChecker, hasLogged, errorLog,
                   db, systemState, active, verdict, ret>>

\* ------------------------------------------------------ a second manager

\* Variant: the suppression state is one per process.
peer_verify_process_wide(c) ==
    IF hasLogged \/ peer.hasLogged THEN [logs |-> 0, flag |-> peer.hasLogged]
    ELSE verifyFrom(c, 1, 0, peer.hasLogged)

\* IdealStateManager::verify_only_live_nodes_in_context of the other manager
\* of the process: the flag it tests and sets is its own member.
peer_verify_only_live_nodes_in_context(c) ==
    IF peer.hasLogged THEN [logs |-> 0, flag |-> peer.hasLogged]
    ELSE verifyFrom(c, 1, 0, peer.hasLogged)

\* IdealStateManager::generateHighestPriority of the other manager, which is
\* constructed alike and works on the same database and cluster state.
peer_generateHighestPriority(bucket) ==
    LET c0 == fillSiblingBucket(fillParentAndChildBuckets(Context(bucket)))
        e == getEntryForPrimaryBucket(c0)
    IN  IF e = 0
        THEN [found |-> FALSE, result |-> noMaintenanceNeeded, c |-> c0,
              logs |-> 0, flag |-> peer.hasLogged]
        ELSE LET c1 == [c0 EXCEPT !.entry = c0.entries[e]]
                 v == peer_verify_only_live_nodes_in_context(c1)
                 r == runStateCheckers(c1)
             IN  [found |-> TRUE, result |-> r.result, c |-> r.c,
                  logs |-> v.logs, flag |-> v.flag]

\* IdealStateManager::prioritize and IdealStateManager::generate, called on
\* the other manager.
peer_call(api, bucket) ==
    LET generated == peer_generateHighestPriority(bucket)
        priority == generated.result.priority
        op == createOperation(generated.result)
    IN  /\ peer.ret = NoCall
        /\ peer' =
               [hasLogged |-> generated.flag,
                errorLog |-> peer.errorLog + generated.logs,
                ret |-> IF api = "prioritize"
                        THEN [NoCall EXCEPT
                                 !.api = api, !.bucket = bucket,
                                 !.found = generated.found,
                                 !.priority = priority,
                                 !.type = IF requiresMaintenance(priority)
                                          THEN generated.result.type
                                          ELSE OPERATION_COUNT,
                                 !.seen = generated.c.seen,
                                 !.stats = generated.c.stats,
                                 !.logs = generated.logs]
                        ELSE [NoCall EXCEPT
                                 !.api = api, !.bucket = bucket,
                                 !.found = generated.found,
                                 !.operation =
                                     IF op # NoOperation
                                     THEN [op EXCEPT !.manager = TRUE] ELSE op,
                                 !.seen = generated.c.seen,
                                 !.stats = generated.c.stats,
                                 !.logs = generated.logs]]
        /\ UNCHANGED <<tensorStore, threads,
                       stateCheckers, splitChecker, hasLogged, errorLog,
                       db, systemState, active, verdict, ret>>

\* The caller of the other manager takes the result of the call.
peer_returnToCaller ==
    /\ peer.ret # NoCall
    /\ peer' = [peer EXCEPT !.ret = NoCall]
    /\ UNCHANGED <<tensorStore, threads,
                   stateCheckers, splitChecker, hasLogged, errorLog,
                   db, systemState, active, verdict, ret>>

\* --------------------------------------------------------- the environment

\* The checkers that differ from the quiet default (enabled, nothing to do).
Varied(v, a) == { n \in CheckerNames : requiresMaintenance(v[n]) \/ ~a[n] }

\* The caller takes the result of the call.
returnToCaller ==
    /\ ret # NoCall
    /\ ret' = NoCall
    /\ UNCHANGED <<tensorStore, threads, peer,
                   stateCheckers, splitChecker, hasLogged, errorLog, db,
                   systemState, active, verdict>>

\* The context a checker judges changes (the database, the cluster state or
\* a threshold moved): the rule of checker `name` now finds priority p.
contextChange(name, p) ==
    /\ ret = NoCall
    /\ verdict[name] # p
    /\ Cardinality(Varied([verdict EXCEPT ![name] = p], active)) <= MaxVaried
    /\ verdict' = [verdict EXCEPT ![name] = p]
    /\ UNCHANGED <<tensorStore, threads, peer,
                   stateCheckers, splitChecker, hasLogged, errorLog, db,
                   systemState, active, ret>>

\* A new configuration enables or disables the checker `name`.
configure(name, enabled) ==
    /\ ret = NoCall
    /\ active[name] # enabled
    /\ Cardinality(Varied(verdict, [active EXCEPT ![name] = enabled])) <= MaxVaried
    /\ active' = [active EXCEPT ![name] = enabled]
    /\ UNCHANGED <<tensorStore, threads, peer,
                   stateCheckers, splitChecker, hasLogged, errorLog, db,
                   systemState, verdict, ret>>

\* The bucket database replaces, adds or removes the entry of bucket b.
update(b, e) ==
    /\ ret = NoCall
    /\ db[b] # e
    /\ db' = [db EXCEPT ![b] = e]
    /\ UNCHANGED <<tensorStore, threads, peer,
                   stateCheckers, splitChecker, hasLogged, errorLog,
                   systemState, active, verdict, ret>>

\* A new cluster state puts storage node n in state s.
setNodeState(n, s) ==
    /\ ret = NoCall
    /\ systemState[n] # s
    /\ systemState' = [systemState EXCEPT ![n] = s]
    /\ UNCHANGED <<tensorStore, threads, peer,
                   stateCheckers, splitChecker, hasLogged, errorLog, db,
                   active, verdict, ret>>

\* ------------------------------------------------------ dense tensor store

DENSE_TENSOR_ALIGNMENT == 32

\* size_t values are the naturals below 2^SizeBits; arithmetic wraps.
SizeRange == 2 ^ SizeBits

\* vespalib::eval::CellType
CellTypes == {"DOUBLE", "FLOAT"}

\* ValueType of a dense tensor: one or two dimensions and a cell type.
ValueTypes ==
    { [dimensions |-> d, cell_type |-> t] :
          d \in { <<a>> : a \in 1..MaxDim } \cup
                { <<a, b>> : a \in 1..MaxDim, b \in 1..MaxDim },
          t \in CellTypes }

size_of(type) ==
    CASE type = "DOUBLE" -> 8
      [] type = "FLOAT" -> 4

\* Variant: a whole alignment unit is added before rounding down.
my_align_whole(size, alignment) ==
    LET sum == (size + alignment) % SizeRange
    IN  sum - (sum % alignment)

my_align(size, alignment) ==
    LET sum == (size + alignment - 1) % SizeRange
    IN  sum - (sum % alignment)

\* DenseTensorStore::TensorSizeCalc::TensorSizeCalc, the loop over the
\* dimensions from dimension i on.
RECURSIVE numCellsFrom(_, _, _)
numCellsFrom(dimensions, i, numCells) ==
    IF i > Len(dimensions) THEN numCells
    ELSE numCellsFrom(dimensions, i + 1, (numCells * dimensions[i]) % SizeRange)

TensorSizeCalc(type) ==
    [numCells |-> numCellsFrom(type.dimensions, 1, 1),
     cellSize |-> size_of(type.cell_type)]

\* DenseTensorStore::TensorSizeCalc::bufSize
bufSize(calc) == (calc.numCells * calc.cellSize) % SizeRange

\* DenseTensorStore::TensorSizeCalc::alignedSize
alignedSize(calc) == my_align(bufSize(calc), DENSE_TENSOR_ALIGNMENT)

\* clearPadAreaAfterBuffer: the length of the area it clears.
clearPadAreaAfterBuffer(size, alignedBufSize) == (alignedBufSize - size) % SizeRange

\* No store: the process has not made one.
NoTensorStore ==
    [type |-> [dimensions |-> <<>>, cell_type |-> "DOUBLE"],
     calc |-> [numCells |-> 0, cellSize |-> 0],
     arraySize |-> 0, allocated |-> FALSE,
     bufSize |-> 0, alignedBufSize |-> 0, padSize |-> 0]

\* DenseTensorStore::DenseTensorStore, with the BufferType whose array size
\* is the aligned size.
DenseTensorStore(type) ==
    /\ tensorStore' = [NoTensorStore EXCEPT
                           !.type = type,
                           !.calc = TensorSizeCalc(type),
                           !.arraySize = alignedSize(TensorSizeCalc(type))]
    /\ UNCHANGED <<threads, peer, stateCheckers, splitChecker, hasLogged,
                   errorLog, db, systemState, active, verdict, ret>>

\* DenseTensorStore::allocRawBuffer: a buffer of the aligned size is
\* allocated and the pad area after the tensor's bytes is cleared.
allocRawBuffer ==
    /\ tensorStore # NoTensorStore
    /\ tensorStore' = [tensorStore EXCEPT
                           !.allocated = TRUE,
                           !.bufSize = bufSize(tensorStore.calc),
                           !.alignedBufSize = alignedSize(tensorStore.calc),
                           !.padSize = clearPadAreaAfterBuffer(
                                           bufSize(tensorStore.calc),
                                           alignedSize(tensorStore.calc))]
    /\ UNCHANGED <<threads, peer, stateCheckers, splitChecker, hasLogged,
                   errorLog, db, systemState, active, verdict, ret>>

\* ---------------------------------------------------------- specifications

\* The replica list that names every storage node.
AllNodes == [k \in 1..(MaxNode + 1) |-> k - 1]

\* A database that holds bucket 1 with one replica and bucket 2 with a
\* replica on every node, and no other bucket.
SomeDb ==
    [b \in BucketIds |->
        IF b = 1 THEN [bucketId |-> 1, nodes |-> <<0>>]
        ELSE IF b = 2 THEN [bucketId |-> 2, nodes |-> AllNodes]
        ELSE InvalidEntry]

\* Findings of the checkers: nothing to do, or the split checker and the join
\* checker both find work, the later one with the higher priority.
Quiet == [n \in CheckerNames |-> 0]

SomeVerdicts ==
    { Quiet,
      [n \in CheckerNames |->
          IF n = SplitBucketStateChecker THEN 1
          ELSE IF n = JoinBucketsStateChecker THEN MaxPri ELSE 0] }

\* The manager as constructed.
Constructed ==
    /\ stateCheckers \in { Constructor(m) : m \in BOOLEAN }
    /\ splitChecker = SplitBucketStateChecker
    /\ hasLogged = FALSE
    /\ errorLog = 0
    /\ ret = NoCall
    /\ threads = [t \in Threads |-> Idle]
    /\ peer = [hasLogged |-> FALSE, errorLog |-> 0, ret |-> NoCall]

\* Spec: the checkers' findings and the configuration change between calls.
Init ==
    /\ Constructed
    /\ tensorStore = NoTensorStore
    /\ db = SomeDb
    /\ systemState = [n \in Nodes |-> "u"]
    /\ active = [n \in CheckerNames |-> TRUE]
    /\ verdict = Quiet

Next ==
    \/ \E b \in BucketIds : prioritize(b)
    \/ \E b \in BucketIds : generate(b)
    \/ \E b \in BucketIds : generateAll(b)
    \/ \E b \in 0..MaxBucket, pri \in MsgPriorities :
           generateInterceptingSplit(get(b), pri)
    \/ getBucketStatus
    \/ returnToCaller
    \/ \E n \in CheckerNames, p \in Priorities : contextChange(n, p)
    \/ \E n \in CheckerNames, enabled \in BOOLEAN : configure(n, enabled)

Spec == Init /\ [][Next]_vars

\* SpecDb: the bucket database changes between calls; the last storage node
\* is up or down.
InitDb ==
    /\ Constructed
    /\ tensorStore = NoTensorStore
    /\ db = [b \in BucketIds |-> InvalidEntry]
    /\ systemState \in { [n \in Nodes |-> IF n = MaxNode THEN s ELSE "u"] :
                            s \in {"u", "d"} }
    /\ active = [n \in CheckerNames |-> TRUE]
    /\ verdict \in SomeVerdicts

NextDb ==
    \/ \E b \in BucketIds : prioritize(b)
    \/ \E b \in BucketIds : generate(b)
    \/ \E b \in BucketIds : generateAll(b)
    \/ \E b \in 0..MaxBucket, pri \in MsgPriorities :
           generateInterceptingSplit(get(b), pri)
    \/ getBucketStatus
    \/ returnToCaller
    \/ \E b \in BucketIds : \E e \in EntriesOf(b) \cup {InvalidEntry} : update(b, e)

SpecDb == InitDb /\ [][NextDb]_vars

\* SpecCluster: the cluster state changes between calls.
InitCluster ==
    /\ Constructed
    /\ tensorStore = NoTensorStore
    /\ db = SomeDb
    /\ systemState = [n \in Nodes |-> "u"]
    /\ active = [n \in CheckerNames |-> TRUE]
    /\ verdict \in SomeVerdicts

NextCluster ==
    \/ \E b \in BucketIds : prioritize(b)
    \/ \E b \in BucketIds : generate(b)
    \/ \E b \in BucketIds : generateAll(b)
    \/ \E b \in 0..MaxBucket, pri \in MsgPriorities :
           generateInterceptingSplit(get(b), pri)
    \/ getBucketStatus
    \/ returnToCaller
    \/ \E n \in Nodes, s \in NodeStates : setNodeState(n, s)

SpecCluster == InitCluster /\ [][NextCluster]_vars

\* SpecConc: the worker threads call the manager at the same time, over one
\* database and one cluster state, in which the last storage node is down.
InitConc ==
    /\ Constructed
    /\ tensorStore = NoTensorStore
    /\ db = SomeDb
    /\ systemState = [n \in Nodes |-> IF n = MaxNode THEN "d" ELSE "u"]
    /\ active = [n \in CheckerNames |-> TRUE]
    /\ verdict \in SomeVerdicts \ {Quiet}

NextConc ==
    \/ \E t \in Threads, b \in BucketIds :
           \E api \in {"prioritize", "generate", "generateAll"} : call(t, api, b)
    \/ \E t \in Threads : testLogged(t)
    \/ \E t \in Threads : verifyReplica(t)
    \/ \E t \in Threads : evaluate(t)
    \/ \E t \in Threads : takeResult(t)

SpecConc == InitConc /\ [][NextConc]_vars

\* SpecPeers: two managers of one process are called in turn, over one
\* database and one cluster state, in which the last storage node is up or
\* down.
InitPeers ==
    /\ Constructed
    /\ tensorStore = NoTensorStore
    /\ db = SomeDb
    /\ systemState \in { [n \in Nodes |-> IF n = MaxNode THEN s ELSE "u"] :
                            s \in {"u", "d"} }
    /\ active = [n \in CheckerNames |-> TRUE]
    /\ verdict \in SomeVerdicts

NextPeers ==
    \/ \E b \in BucketIds : prioritize(b)
    \/ \E b \in BucketIds : generate(b)
    \/ returnToCaller
    \/ \E b \in BucketIds : \E api \in {"prioritize", "generate"} : peer_call(api, b)
    \/ peer_returnToCaller

SpecPeers == InitPeers /\ [][NextPeers]_vars

\* SpecTensor: dense tensor stores of every type are made and allocate.
InitTensor == Init

NextTensor ==
    \/ \E type \in ValueTypes : DenseTensorStore(type)
    \/ allocRawBuffer

SpecTensor == InitTensor /\ [][NextTensor]_vars

\* ----------------------------------------------------------------- claims

\* The checkers a call invoked, in the order of the invocations.
Invoked == [k \in 1..Len(ret.seen) |-> ret.seen[k].checker]

\* The checkers of the chain the configuration leaves active, in order.
ActiveChain == SelectSeq(stateCheckers, LAMBDA n : active[n])

\* The checkers of the chain whose rule finds maintenance needed, in order.
NeedingChain == SelectSeq(stateCheckers, LAMBDA n : verdict[n] # 0)

\* The active checkers whose rule finds maintenance needed, in order.
ActiveNeedingChain == SelectSeq(ActiveChain, LAMBDA n : verdict[n] # 0)

\* The call evaluated a bucket whose primary entry was resolved.
Evaluated(api) == ret.api = api /\ ret.found

\* The primary entry of the evaluated bucket has a replica on a node that is
\* not up, initializing or retired.
Phantom ==
    \E k \in 1..Len(db[ret.bucket].nodes) :
        systemState[db[ret.bucket].nodes[k]] \notin {"u", "i", "r"}

\* C1: prioritize returns the priority and the operation type of the first
\* active checker, in declared order, that requires maintenance, whatever
\* the priorities of the checkers after it.
C1_OrderingPrecedence ==
    Evaluated("prioritize") =>
        \A i \in 1..Len(stateCheckers) :
            ( /\ active[stateCheckers[i]]
              /\ verdict[stateCheckers[i]] # 0
              /\ \A h \in 1..(i - 1) :
                     ~active[stateCheckers[h]] \/ verdict[stateCheckers[h]] = 0 )
            => /\ ret.priority = verdict[stateCheckers[i]]
               /\ ret.type = OperationType(stateCheckers[i])

\* A later active checker asks for a strictly higher priority and a
\* different operation type, and the earlier one was returned.
C1_Witness ==
    /\ Evaluated("prioritize")
    /\ \E i, j \in 1..Len(stateCheckers) :
          /\ i < j
          /\ active[stateCheckers[i]] /\ active[stateCheckers[j]]
          /\ verdict[stateCheckers[i]] # 0
          /\ verdict[stateCheckers[j]] > verdict[stateCheckers[i]]
          /\ OperationType(stateCheckers[j]) # OperationType(stateCheckers[i])
          /\ ret.priority = verdict[stateCheckers[i]]
          /\ ret.type = OperationType(stateCheckers[i])

\* C2: on a bucket that the database does not hold, or holds with an empty
\* replica list, prioritize returns the no-maintenance sentinel, generate no
\* operation and generateAll no operations; no checker is invoked and
\* nothing is added to the statistics.
C2_MissingPrimary ==
    ( /\ ret.api \in {"prioritize", "generate", "generateAll"}
      /\ (~valid(db[ret.bucket]) \/ db[ret.bucket].nodes = <<>>) )
    => /\ ret.priority = 0
       /\ ret.type = OPERATION_COUNT
       /\ ret.operation = NoOperation
       /\ ret.operations = <<>>
       /\ ret.seen = <<>>
       /\ ret.stats = <<>>

\* The bucket is held with an empty replica list, its parent is held with
\* replicas, and checkers would have found work.
C2_Witness ==
    /\ ret.api \in {"prioritize", "generate", "generateAll"}
    /\ valid(db[ret.bucket]) /\ db[ret.bucket].nodes = <<>>
    /\ \E b \in BucketIds :
           b # ret.bucket /\ contains(b, ret.bucket) /\ db[b].nodes # <<>>
    /\ NeedingChain # <<>>
    /\ ret.seen = <<>>

\* C3: where exactly k of the checkers generateAll asks report "needs
\* maintenance", generateAll returns exactly k operations, one per such
\* checker in declared order, and generate on the same bucket returns the
\* operation of the first of these checkers (k >= 1).
C3_GenerateAllCompleteness ==
    Evaluated("generateAll") =>
        LET reported == SelectSeq(Invoked, LAMBDA n : verdict[n] # 0)
            generated == createOperation(generateHighestPriority(ret.bucket).result)
        IN  /\ Len(ret.operations) = Len(reported)
            /\ \A k \in 1..Len(reported) : ret.operations[k].checker = reported[k]
            /\ reported # <<>> => generated.checker = reported[1]

\* C4: the phantom replica anomaly is logged at most once by one manager.
C4_LoggedAtMostOnce == errorLog <= 1

\* C5: prioritize and generate never invoke a disabled checker, add nothing
\* of it to the statistics, and decide as the chain without the disabled
\* checkers decides: the first of the remaining checkers that requires
\* maintenance, or nothing; the remaining checkers are all invoked.
C5_DisabledExcluded ==
    (Evaluated("prioritize") \/ Evaluated("generate")) =>
        /\ \A k \in 1..Len(ret.seen) : active[ret.seen[k].checker]
        /\ \A k \in 1..Len(ret.stats) : active[ret.stats[k]]
        /\ Invoked = ActiveChain
        /\ ret.api = "prioritize" =>
               IF ActiveNeedingChain = <<>>
               THEN ret.priority = 0 /\ ret.type = OPERATION_COUNT
               ELSE /\ ret.priority = verdict[ActiveNeedingChain[1]]
                    /\ ret.type = OperationType(ActiveNeedingChain[1])
        /\ ret.api = "generate" =>
               IF ActiveNeedingChain = <<>>
               THEN ret.operation = NoOperation
               ELSE ret.operation.checker = ActiveNeedingChain[1]

\* The first checker that finds work is disabled and a later, active one
\* finds work too: the later one's operation is generated.
C5_Witness ==
    /\ Evaluated("generate")
    /\ NeedingChain # <<>>
    /\ ~active[NeedingChain[1]]
    /\ ActiveNeedingChain # <<>>
    /\ ret.operation.checker = ActiveNeedingChain[1]

\* C6: generateAll never invokes a disabled checker, returns no operation of
\* a disabled checker and adds nothing of it to the statistics.
C6_GenerateAllSkipsDisabled ==
    ret.api = "generateAll" =>
        /\ \A k \in 1..Len(ret.seen) : active[ret.seen[k].checker]
        /\ \A k \in 1..Len(ret.operations) : active[ret.operations[k].checker]
        /\ \A k \in 1..Len(ret.stats) : active[ret.stats[k]]

\* C7: generateInterceptingSplit invokes the split checker at most once and
\* no other checker; on an invalid entry it invokes none and returns no
\* operation; on a valid entry it returns the split checker's operation, or
\* none when the split checker declines.
C7_InterceptingSplitIsolation ==
    ret.api = "generateInterceptingSplit" =>
        /\ Len(ret.seen) <= 1
        /\ \A k \in 1..Len(ret.seen) : ret.seen[k].checker = SplitBucketStateChecker
        /\ ret.stats = Invoked
        /\ ~valid(ret.entry) => (ret.seen = <<>> /\ ret.operation = NoOperation)
        /\ (valid(ret.entry) /\ verdict[SplitBucketStateChecker] = 0) =>
               ret.operation = NoOperation
        /\ (valid(ret.entry) /\ verdict[SplitBucketStateChecker] # 0) =>
               /\ ret.operation.checker = SplitBucketStateChecker
               /\ ret.operation.type = "SPLIT_BUCKET"

\* The split checker declines a valid entry on which another checker finds
\* work: no operation is returned.
C7_Witness ==
    /\ ret.api = "generateInterceptingSplit"
    /\ valid(ret.entry)
    /\ verdict[SplitBucketStateChecker] = 0
    /\ NeedingChain # <<>>
    /\ Invoked = <<SplitBucketStateChecker>>
    /\ ret.operation = NoOperation

\* C8: when every active checker reports "no maintenance needed", generate
\* returns no operation and prioritize the no-maintenance sentinel.
C8_NoOpStability ==
    ( /\ Evaluated("prioritize") \/ Evaluated("generate")
      /\ \A i \in 1..Len(stateCheckers) :
             active[stateCheckers[i]] => verdict[stateCheckers[i]] = 0 )
    => /\ ret.priority = 0
       /\ ret.type = OPERATION_COUNT
       /\ ret.operation = NoOperation

\* Every active checker was asked and declined; a disabled one would have
\* found work.
C8_Witness ==
    /\ Evaluated("prioritize")
    /\ Invoked = ActiveChain
    /\ ActiveNeedingChain = <<>>
    /\ NeedingChain # <<>>
    /\ ret.priority = 0

C10_PrimaryEntryEverywhere ==
    \A k \in 1..Len(ret.seen) :
        /\ ret.seen[k].entry.bucketId = ret.seen[k].bucket
        /\ ret.seen[k].entry.nodes # <<>>

\* C10, amended: whenever prioritize, generate or generateAll invoke a
\* checker, the primary entry has the target bucket id and has replicas;
\* whenever generateInterceptingSplit invokes the split checker, the entry
\* is valid and has the target bucket id (its replica list may be empty).
C10_PrimaryEntry ==
    \A k \in 1..Len(ret.seen) :
        /\ ret.api # "getBucketStatus" => ret.seen[k].bucket = ret.bucket
        /\ ret.seen[k].entry.bucketId = ret.seen[k].bucket
        /\ valid(ret.seen[k].entry)
        /\ ret.api # "generateInterceptingSplit" =>
               /\ ret.seen[k].entry.nodes # <<>>
               /\ ret.seen[k].entry = db[ret.seen[k].bucket]

\* The split checker is invoked on a valid entry without replicas.
C10_Witness ==
    /\ ret.api = "generateInterceptingSplit"
    /\ ret.seen # <<>>
    /\ valid(ret.entry)
    /\ ret.entry.nodes = <<>>

\* C11: prioritize reports the type OPERATION_COUNT exactly when the priority
\* it returns does not require maintenance; when the priority requires
\* maintenance the type is the type tag of the winning checker's result, the
\* first active checker of the chain that finds maintenance needed.
C11_TypeSentinel ==
    ret.api = "prioritize" =>
        /\ (ret.type = OPERATION_COUNT) <=> ~requiresMaintenance(ret.priority)
        /\ requiresMaintenance(ret.priority) =>
               /\ ActiveNeedingChain # <<>>
               /\ ret.type = OperationType(ActiveNeedingChain[1])

\* prioritize returned a type tag, and a later checker with another type tag
\* found maintenance needed as well.
C11_Witness ==
    /\ Evaluated("prioritize")
    /\ requiresMaintenance(ret.priority)
    /\ ret.type # OPERATION_COUNT
    /\ Len(ActiveNeedingChain) > 1
    /\ OperationType(ActiveNeedingChain[2]) # ret.type

\* C14: a prioritize call that resolves a primary entry invokes every active
\* checker exactly once, in the declared order, the checkers after the first
\* one that finds maintenance needed included; the statistics tracker of the
\* call holds the contributions of exactly the active checkers, each once.
C14_FullChainForStatistics ==
    Evaluated("prioritize") =>
        /\ Invoked = ActiveChain
        /\ ret.stats = ActiveChain
        /\ \A n \in CheckerNames :
               Len(SelectSeq(ret.stats, LAMBDA x : x = n)) =
                   (IF active[n] /\ \E k \in 1..Len(stateCheckers) :
                                        stateCheckers[k] = n
                    THEN 1 ELSE 0)

\* prioritize went on to invoke checkers after the one that decided the
\* priority, a checker that finds nothing among them.
C14_Witness ==
    /\ Evaluated("prioritize")
    /\ requiresMaintenance(ret.priority)
    /\ \E k \in 1..Len(Invoked) :
           /\ verdict[Invoked[k]] = ret.priority
           /\ k + 1 < Len(Invoked)
           /\ verdict[Invoked[k + 1]] = 0
           /\ Invoked[Len(Invoked)] = GarbageCollectionStateChecker
    /\ Len(ret.stats) = Len(stateCheckers)

\* C15: the checker list is, from construction on and after any sequence of
\* prioritize, generate, generateAll, generateInterceptingSplit and status
\* dump calls, the activation checker (only with manageActiveBucketCopies)
\* followed by split, inconsistent split, synchronize-and-move, join,
\* delete-extra-copies and garbage collection: 7 or 6 entries; and the
\* checker generateInterceptingSplit uses is the split checker of the list.
C15_FixedCheckerChain ==
    /\ stateCheckers \in
           { <<"BucketStateStateChecker", "SplitBucketStateChecker",
               "SplitInconsistentStateChecker", "SynchronizeAndMoveStateChecker",
               "JoinBucketsStateChecker", "DeleteExtraCopiesStateChecker",
               "GarbageCollectionStateChecker">>,
             <<"SplitBucketStateChecker",
               "SplitInconsistentStateChecker", "SynchronizeAndMoveStateChecker",
               "JoinBucketsStateChecker", "DeleteExtraCopiesStateChecker",
               "GarbageCollectionStateChecker">> }
    /\ Len(stateCheckers) \in {6, 7}
    /\ stateCheckers[Len(stateCheckers) - 5] = splitChecker
    /\ \A k \in 1..Len(stateCheckers) :
           stateCheckers[k] = splitChecker => k = Len(stateCheckers) - 5

\* A status dump that found operations has returned on a manager that does
\* not manage active bucket copies, with a checker disabled.
C15_Witness ==
    /\ ret.api = "getBucketStatus"
    /\ ret.operations # <<>>
    /\ Len(stateCheckers) = 6
    /\ \E n \in CheckerNames : ~active[n]

\* C16: a prioritize or generate call that resolves a primary entry while the
\* 'already logged' flag is unset logs the anomaly and sets the flag if and
\* only if a replica of that entry is on a node whose state is none of Up,
\* Initializing and Retired (Maintenance, Down and Stopping are all flagged);
\* with replicas on Up, Initializing and Retired nodes only, nothing is
\* logged and the flag stays unset.
C16_LivenessPredicate ==
    [][ (ret'.api \in {"prioritize", "generate"} /\ ret'.found /\ ~hasLogged) =>
            LET replicas == db[ret'.bucket].nodes
                flagged == \E k \in 1..Len(replicas) :
                               systemState[replicas[k]] \in {"m", "d", "s"}
                live == \A k \in 1..Len(replicas) :
                            systemState[replicas[k]] \in {"u", "i", "r"}
            IN  /\ flagged <=> ~live
                /\ flagged <=> (hasLogged' /\ errorLog' > errorLog)
                /\ live <=> (~hasLogged' /\ errorLog' = errorLog) ]_vars

\* generate logged the anomaly for an entry whose replicas are on nodes in
\* maintenance, retired or initializing, none of them down or stopping.
C16_Witness ==
    /\ Evaluated("generate")
    /\ ret.logs > 0
    /\ hasLogged
    /\ \A k \in 1..Len(db[ret.bucket].nodes) :
           systemState[db[ret.bucket].nodes[k]] \in {"m", "r", "i"}
    /\ Len(db[ret.bucket].nodes) > 1

C18_GenerateAgreesWithPrioritize ==
    LET winning == generateHighestPriority(ret.bucket).result
        priority == winning.priority
        type == IF requiresMaintenance(priority)
                THEN winning.type ELSE OPERATION_COUNT
        operation == createOperation(winning)
    IN  /\ ret.api = "generate" =>
               /\ (ret.operation # NoOperation) <=> requiresMaintenance(priority)
               /\ ret.operation # NoOperation =>
                      /\ ret.operation.type = type
                      /\ ret.operation.priority = priority
        /\ ret.api = "prioritize" =>
               /\ requiresMaintenance(ret.priority) <=> (operation # NoOperation)
               /\ requiresMaintenance(ret.priority) =>
                      /\ ret.type = operation.type
                      /\ ret.priority = operation.priority

\* generate returned an operation although an earlier checker of the list,
\* disabled, finds maintenance needed too.
C18_Witness ==
    /\ Evaluated("generate")
    /\ ret.operation # NoOperation
    /\ Len(NeedingChain) > 1
    /\ NeedingChain[1] # ret.operation.checker
    /\ ~active[NeedingChain[1]]

\* C19: a status dump leaves the checker list, the bucket database, the
\* cluster state and the 'already logged' flag as they were, and with them
\* everything else an evaluation reads (the split checker, the configuration,
\* what the checkers find) and the log: prioritize and generate, which read
\* nothing else, find after the dump what they found before it.
C19_StatusDumpReadOnly ==
    [][ ret'.api = "getBucketStatus" =>
            /\ stateCheckers' = stateCheckers
            /\ splitChecker' = splitChecker
            /\ db' = db
            /\ systemState' = systemState
            /\ hasLogged' = hasLogged
            /\ errorLog' = errorLog
            /\ active' = active
            /\ verdict' = verdict
            /\ ret'.logs = 0
      ]_vars

\* A dump has visited two buckets, one with a replica on an unavailable node,
\* and found operations, with the flag still unset.
C19_Witness ==
    /\ ret.api = "getBucketStatus"
    /\ Len(ret.out) > 1
    /\ ret.operations # <<>>
    /\ ~hasLogged
    /\ \E k \in 1..Len(ret.out) : \E j \in 1..Len(db[ret.out[k].bucket].nodes) :
           systemState[db[ret.out[k].bucket].nodes[j]] = "d"
    /\ generateHighestPriority(ret.out[1].bucket).logs > 0

\* C20: every operation generateInterceptingSplit returns carries the priority
\* its caller supplied, in place of the priority of the split checker's
\* result, and the call neither sets the 'already logged' flag nor logs nor
\* lets the flag decide what it returns (an operation is returned exactly
\* when the entry is valid and the split checker finds a split needed).
C20_InterceptingSplitPriority ==
    [][ ret'.api = "generateInterceptingSplit" =>
            /\ hasLogged' = hasLogged
            /\ errorLog' = errorLog
            /\ ret'.logs = 0
            /\ (ret'.operation # NoOperation) <=>
                   (valid(ret'.entry) /\ requiresMaintenance(verdict[splitChecker]))
            /\ ret'.operation # NoOperation =>
                   /\ ret'.operation.priority = ret'.pri
                   /\ ret'.operation.checker = splitChecker
      ]_vars

\* generateInterceptingSplit, called with the flag set on an entry with a
\* replica on an unavailable node, returned an operation with the caller's
\* priority, which is not the priority the split checker found.
C20_Witness ==
    /\ ret.api = "generateInterceptingSplit"
    /\ ret.operation # NoOperation
    /\ ret.operation.priority = ret.pri
    /\ ret.pri # verdict[splitChecker]
    /\ hasLogged
    /\ Phantom

\* What the call api(bucket) returns when it runs alone on the manager.
Alone(api, bucket) ==
    LET generated == generateHighestPriority(bucket)
        op == createOperation(generated.result)
    IN  [found |-> generated.found,
         priority |-> IF api = "prioritize" THEN generated.result.priority ELSE 0,
         type |-> IF api = "prioritize"
                     /\ requiresMaintenance(generated.result.priority)
                  THEN generated.result.type ELSE OPERATION_COUNT,
         operation |-> IF api = "generate" /\ op # NoOperation
                       THEN [op EXCEPT !.manager = TRUE] ELSE NoOperation,
         operations |-> IF api = "generateAll"
                        THEN generateAllOperations(bucket).operations ELSE <<>>]

\* What the call of thread t returned.
Returned(t) ==
    [found |-> threads[t].found, priority |-> threads[t].priority,
     type |-> threads[t].type, operation |-> threads[t].operation,
     operations |-> threads[t].operations]

\* C12: when worker threads run prioritize, generate and generateAll at the
\* same time over one database and cluster state, every call returns, under
\* every interleaving, what it returns when run alone; the calls write no
\* state of the manager but the 'already logged' flag, which once set stays
\* set, and the race on the flag shows in the number of log lines only.
C12_ConcurrentEvaluation ==
    /\ [](\A t \in Threads :
              threads[t].pc = "done" =>
                  Returned(t) = Alone(threads[t].api, threads[t].bucket))
    /\ [][ /\ stateCheckers' = stateCheckers
           /\ splitChecker' = splitChecker
           /\ db' = db
           /\ systemState' = systemState
           /\ active' = active
           /\ verdict' = verdict
           /\ hasLogged => hasLogged'
           /\ errorLog' >= errorLog ]_vars

\* Two threads have raced on the flag and both logged the same replica of
\* the same bucket; both calls have returned their decision, a priority that
\* requires maintenance and an operation.
C12_Witness ==
    \E t, u \in Threads :
        /\ threads[t].pc = "done" /\ threads[t].api = "prioritize"
        /\ threads[u].pc = "done" /\ threads[u].api = "generate"
        /\ threads[t].bucket = threads[u].bucket
        /\ threads[t].logs > 0
        /\ threads[u].logs > 0
        /\ errorLog >= threads[t].logs + threads[u].logs
        /\ requiresMaintenance(threads[t].priority)
        /\ threads[u].operation # NoOperation

\* The primary entry of bucket b has a replica on a node that is not up,
\* initializing or retired.
PhantomOf(b) ==
    \E k \in 1..Len(db[b].nodes) : systemState[db[b].nodes[k]] \notin {"u", "i", "r"}

\* C13: the 'already logged' state belongs to one manager.  A manager whose
\* own flag is unset logs the anomaly in its first evaluation of a bucket
\* with a replica on an unavailable node, whether or not the other manager of
\* the process has logged one; and a call on one manager leaves the flag and
\* the log count of the other as they were.
C13_PerManagerSuppression ==
    [][ /\ ( /\ peer.ret = NoCall /\ peer'.ret # NoCall
             /\ peer'.ret.found
             /\ ~peer.hasLogged
             /\ PhantomOf(peer'.ret.bucket) )
           => (peer'.hasLogged /\ peer'.errorLog > peer.errorLog)
        /\ ( /\ ret = NoCall /\ ret'.api \in {"prioritize", "generate"}
             /\ ret'.found
             /\ ~hasLogged
             /\ PhantomOf(ret'.bucket) )
           => (hasLogged' /\ errorLog' > errorLog)
        /\ peer' # peer => (hasLogged' = hasLogged /\ errorLog' = errorLog)
        /\ (hasLogged' # hasLogged \/ errorLog' # errorLog)
           => (peer'.hasLogged = peer.hasLogged /\ peer'.errorLog = peer.errorLog)
      ]_vars

\* Both managers have logged: the other manager's call has logged its first
\* detection, and the first manager's flag is set by a detection of its own.
C13_Witness ==
    /\ hasLogged
    /\ errorLog > 0
    /\ ret = NoCall
    /\ peer.ret.api = "generate"
    /\ peer.ret.logs > 0
    /\ peer.errorLog = peer.ret.logs
    /\ PhantomOf(peer.ret.bucket)

\* The number of bytes of a tensor of the type, as a natural number.
RECURSIVE CellsOf(_, _)
CellsOf(dimensions, i) ==
    IF i > Len(dimensions) THEN 1 ELSE dimensions[i] * CellsOf(dimensions, i + 1)

BytesOf(type) == CellsOf(type.dimensions, 1) * size_of(type.cell_type)

\* C21: for every buffer size s, the number of cells times the cell size,
\* that is computed and aligned without wrap-around, alignedSize() is the
\* smallest multiple of 32 that is at least s, so 0 <= alignedSize() - s < 32;
\* the pad area allocRawBuffer clears after the buffer has that length.
C21_AlignedSize ==
    ( /\ tensorStore # NoTensorStore
      /\ BytesOf(tensorStore.type) + DENSE_TENSOR_ALIGNMENT - 1 < SizeRange )
    => LET s == bufSize(tensorStore.calc)
           aligned == alignedSize(tensorStore.calc)
       IN  /\ s = BytesOf(tensorStore.type)
           /\ aligned % 32 = 0
           /\ aligned >= s
           /\ aligned - s < 32
           /\ \A m \in s..aligned : m % 32 = 0 => m = aligned
           /\ tensorStore.arraySize = aligned
           /\ tensorStore.allocated =>
                  /\ tensorStore.alignedBufSize = aligned
                  /\ tensorStore.padSize = aligned - s
                  /\ tensorStore.padSize \in 0..31

\* A store whose buffer size is not a multiple of 32 has allocated and
\* cleared a pad area of 28 bytes, the longest there is for 4-byte cells.
C21_Witness ==
    /\ tensorStore.allocated
    /\ BytesOf(tensorStore.type) + DENSE_TENSOR_ALIGNMENT - 1 < SizeRange
    /\ tensorStore.bufSize > 32
    /\ tensorStore.padSize = 28
    /\ tensorStore.alignedBufSize = tensorStore.bufSize + 28

====
